---- MODULE Spec2Model ----
(***************************************************************************)
(* qrcam: the frame-processing and asynchronous-decode pipeline.           *)
(*                                                                         *)
(* Threads: the capture callback (Handler::handle -> record_img), the      *)
(* background worker (decode_qr), threads calling Handler::shutdown on a   *)
(* clone, and consumers calling take_img / take_qrcodes.  All clones share *)
(* the same Arc'ed fields, so the fields are modelled once.                *)
(*                                                                         *)
(* Every mutex in the source guards exactly one statement (a replace or a  *)
(* take of the Option it holds, camera.rs:92,98,102,159-164, qr.rs:44,     *)
(* 47-49), so each such statement is one atomic step here; the steps of a  *)
(* thread are split exactly where it acquires a mutex or touches `stop`.   *)
(*                                                                         *)
(* decode.rs holds the same type under the name Decoder (decode for handle), *)
(* line for line; the line numbers below are those of camera.rs and qr.rs.  *)
(*                                                                         *)
(* `stop` is a single AtomicBool accessed with Relaxed ordering: its       *)
(* modification order is total, so a load is a step that reads the value   *)
(* of the latest store before it.                                          *)
(*                                                                         *)
(* An Option<T> is a set with at most one element: None is {} and Some(v)  *)
(* is {v}.  An image is identified by the number of the record_img call    *)
(* that produced it (1, 2, ...).                                           *)
(*                                                                         *)
(* Four specifications share the actions below:                            *)
(*   Spec       the threads interleaved, a locking statement being a step; *)
(*   LockSpec   the same with lock() as a step of its own and the guards   *)
(*              as state;                                                  *)
(*   PoisonSpec Spec without shutdown, started with poisoned mutexes;      *)
(*   ConvSpec   one record_img call building its two images pixel pair by  *)
(*              pixel pair, for every stride, height and buffer in bounds. *)
(* The variables of one specification keep their initial value in the      *)
(* others.                                                                 *)
(***************************************************************************)
EXTENDS Integers, Sequences, FiniteSets, TLC

\* ---------------------------------------------------------------- bounds
MaxFrames == 2
MaxPlanes == 1
MaxCallers == 2
MaxStride == 8
MaxHeight == 2
MaxLen == 24

\* ---------------------------------------------------------------- values
None == {}
Some(v) == {v}

Callers == 1..MaxCallers

\* plane.stride(), plane.height(), plane.data() are each Some or None
Planes == [stride : BOOLEAN, height : BOOLEAN, data : BOOLEAN]

\* The barcode engine is an external collaborator: what it finds is a function
\* of the image alone (here: odd-numbered images show one code, the others
\* none), and a call may also fail.
\* Result<Vec<Barcode>, Error> of barcode_reader.from(&grey_img)
EngineCodes(f) == IF f % 2 = 1 THEN <<"qr">> ELSE <<>>
EngineResults(f) == {[ok |-> TRUE, codes |-> EngineCodes(f)],
                     [ok |-> FALSE, codes |-> <<>>]}

VARIABLES
    rgba_image,     \* Handler.rgba_image : Option<RgbaImage>
    grey_image,     \* Handler.grey_image : Option<GrayImage>
    qrcodes,        \* Handler.qrcodes    : Option<Vec<QRCode>>
    stop,           \* Handler.stop       : AtomicBool
    join_handle,    \* Handler.join_handle: Option<JoinHandle>
    wpc,            \* decode_qr: where the worker thread is
    grey_img_opt,   \* decode_qr: local grey_img_opt
    barcodes,       \* decode_qr: local barcodes (the unwrapped engine result)
    cpc,            \* capture callback: where handle / record_img is
    planesLeft,     \* handle: planes the `for plane in planes` loop has yet to visit
    frameNo,        \* record_img: number of the image being built / last built
    spc,            \* shutdown: where each calling thread is
    imgResult,      \* return value of the latest take_img call
    qrResult,       \* return value of the latest take_qrcodes call
    poisoned,       \* the mutexes whose lock() returns Err(PoisonError)
    \* -- one record_img call building its two images (camera.rs:122-158)
    stride,         \* record_img: argument stride
    height,         \* record_img: argument height
    data,           \* record_img: argument data
    row,            \* record_img: loop variable row
    x,              \* record_img: loop variable x
    rgba_img,       \* record_img: local rgba_img
    grey_img,       \* record_img: local grey_img
    rpc,            \* record_img: where the image-building loop is
    pairs,          \* (history) the pixel pairs converted, with the bytes used
    \* -- the mutexes as locks
    holder,         \* per mutex: the thread that holds its MutexGuard, or Nobody
    awake,          \* decode_qr: thread::sleep has returned, the take is next
    \* -- history, read by the properties only
    written,        \* per mailbox: every value a completed write has stored
    lastWrite,      \* per mailbox: value of the latest completed write (if any)
    fresh,          \* per mailbox: has a write completed since the latest take
    delivered,      \* per mailbox: values returned by takes so far
    redelivered,    \* per mailbox: has some take returned a value a second time
    unexpected,     \* per mailbox: has some take returned other than Expected(m)
    stale,          \* per mailbox: has some take returned a value that no write
                    \* stored or that a completed later write had superseded
    engineLog,      \* frames passed to the barcode engine, in call order
    engineCallers,  \* the threads that have called the barcode engine
    published,      \* frames whose result batch was written to qrcodes, in order
    overwritten,    \* grey frames replaced in the mailbox before being taken
    nComplete,      \* planes seen by handle with stride, height and data present
    joins,          \* number of JoinHandle::join calls made so far
    silentJoin,     \* has some join of a panicked worker returned normally
    restarted,      \* has the worker, with the stop flag set, gone back to an
                    \* earlier point of its loop body
    idle,           \* did the iteration under way find the grey mailbox empty
    idleTouched     \* has such an iteration called the engine or changed qrcodes

progVars == <<rgba_image, grey_image, qrcodes, stop, join_handle, wpc,
              grey_img_opt, barcodes, cpc, planesLeft, frameNo, spc,
              imgResult, qrResult>>
takeHist == <<delivered, redelivered, unexpected, stale>>
engineHist == <<engineLog, engineCallers>>
joinHist == <<joins, silentJoin>>
mailHist == <<written, lastWrite, fresh, takeHist, engineHist, published,
              overwritten, nComplete>>
workerHist == <<restarted, idle, idleTouched>>
histVars == <<mailHist, joinHist, workerHist>>
convVars == <<stride, height, data, row, x, rgba_img, grey_img, rpc, pairs>>
lockVars == <<holder, awake>>
envVars == <<poisoned, convVars, lockVars>>
vars == <<progVars, envVars, histVars>>

Mailboxes == {"rgba", "grey", "qr"}
\* the four mutexes of a Handler: the mailboxes' and join_handle's
Mutexes == Mailboxes \cup {"join"}

\* ------------------------------------------------------------- mailboxes
\* (mutant) a write that leaves an unread older value in place
write_if_empty(slot, v) == IF slot = None THEN Some(v) ELSE slot

\* `*slot = Some(v)` under the mutex
write(slot, v) == Some(v)

\* (mutant) a read that clones the value and leaves it in the slot
take_keep(slot) == [ret |-> slot, slot |-> slot]

\* Option::take under the mutex: the value returned and what the slot holds after
take(slot) == [ret |-> slot, slot |-> None]

\* Mutex::lock returns Ok(guard) unless the mutex is poisoned
lock_ok(m) == m \notin poisoned

\* `if let Ok(mut g) = m.lock() { *g = Some(v) }`: the write happens when
\* the lock is acquired and is skipped otherwise
LockedWrite(m, slot, v) == IF lock_ok(m) THEN write(slot, v) ELSE slot

\* `m.lock().ok().and_then(|mut g| g.take())`: a failed lock is None and
\* leaves the slot alone
LockedTake(m, slot) == IF lock_ok(m) THEN take(slot)
                                     ELSE [ret |-> None, slot |-> slot]

\* history of a completed write of v to mailbox m
NoteWrite(m, v) ==
    /\ written' = [written EXCEPT ![m] = @ \cup {v}]
    /\ lastWrite' = [lastWrite EXCEPT ![m] = Some(v)]
    /\ fresh' = [fresh EXCEPT ![m] = TRUE]

\* what a take of mailbox m returns in a sequential run: the value written
\* last if a write has completed since the previous take, else None
Expected(m) == IF fresh[m] THEN lastWrite[m] ELSE None

\* values of mailbox m that a completed later write has superseded
Superseded(m) == written[m] \ lastWrite[m]

\* history of a take from mailbox m that returned ret
NoteTake(m, ret) ==
    /\ fresh' = [fresh EXCEPT ![m] = FALSE]
    /\ delivered' = [delivered EXCEPT ![m] = @ \cup ret]
    /\ redelivered' = [redelivered EXCEPT ![m] = @ \/ (ret \cap delivered[m] # {})]
    /\ unexpected' = [unexpected EXCEPT ![m] = @ \/ (ret # Expected(m))]
    /\ stale' = [stale EXCEPT ![m] =
                    @ \/ ~(ret \subseteq written[m]) \/ (ret \cap Superseded(m) # {})]

\* history of `if let Ok(..) = m.lock() { write }` and of
\* `m.lock().ok().and_then(take)`: nothing happened to the mailbox if the
\* lock failed
NoteLockedWrite(m, v) ==
    IF lock_ok(m) THEN NoteWrite(m, v)
                  ELSE UNCHANGED <<written, lastWrite, fresh>>

NoteLockedTake(m, ret) ==
    IF lock_ok(m) THEN NoteTake(m, ret)
                  ELSE UNCHANGED <<fresh, takeHist>>

\* ------------------------------------------------------------------ Init
\* Handler::new: empty mailboxes, stop = false, the worker spawned and its
\* JoinHandle stored; decode_qr starts in its first sleep.
HandlerNew ==
    /\ rgba_image = None
    /\ grey_image = None
    /\ qrcodes = None
    /\ stop = FALSE
    /\ join_handle = Some("worker")
    /\ wpc = "sleep"
    /\ grey_img_opt = None
    /\ barcodes = <<>>
    /\ cpc = "idle"
    /\ planesLeft = 0
    /\ frameNo = 0
    /\ spc = [c \in Callers |-> "idle"]
    /\ imgResult = None
    /\ qrResult = None
    /\ written = [m \in Mailboxes |-> {}]
    /\ lastWrite = [m \in Mailboxes |-> None]
    /\ fresh = [m \in Mailboxes |-> FALSE]
    /\ delivered = [m \in Mailboxes |-> {}]
    /\ redelivered = [m \in Mailboxes |-> FALSE]
    /\ unexpected = [m \in Mailboxes |-> FALSE]
    /\ stale = [m \in Mailboxes |-> FALSE]
    /\ engineLog = <<>>
    /\ engineCallers = {}
    /\ published = <<>>
    /\ overwritten = {}
    /\ nComplete = 0
    /\ joins = 0
    /\ silentJoin = FALSE
    /\ restarted = FALSE
    /\ idle = FALSE
    /\ idleTouched = FALSE

\* ImageBuffer::new(width, height): width * height zeroed pixels
RgbaImage_new(w, h) ==
    [width |-> w, height |-> h,
     px |-> [p \in (0..(w - 1)) \X (0..(h - 1)) |-> <<0, 0, 0, 0>>]]

GrayImage_new(w, h) ==
    [width |-> w, height |-> h,
     px |-> [p \in (0..(w - 1)) \X (0..(h - 1)) |-> 0]]

\* no record_img call is being looked at
ConvIdle ==
    /\ stride = 0
    /\ height = 0
    /\ data = <<>>
    /\ row = 0
    /\ x = 0
    /\ rgba_img = RgbaImage_new(0, 0)
    /\ grey_img = GrayImage_new(0, 0)
    /\ rpc = "idle"
    /\ pairs = {}

\* the threads: the worker, the capture callback, a consumer in take_img,
\* one in take_qrcodes, and the callers of shutdown
Worker == <<"decode_qr", 0>>
Capture == <<"handle", 0>>
ImgReader == <<"take_img", 0>>
QrReader == <<"take_qrcodes", 0>>
Caller(c) == <<"shutdown", c>>
Threads == {Worker, Capture, ImgReader, QrReader} \cup {Caller(c) : c \in Callers}
Nobody == <<"nobody", 0>>

\* Handler::new: every mutex is created unlocked
LocksFree ==
    /\ holder = [m \in Mutexes |-> Nobody]
    /\ awake = FALSE

\* no statement of the program panics while it holds a mutex, so none is
\* poisoned
Init ==
    /\ HandlerNew
    /\ poisoned = {}
    /\ ConvIdle
    /\ LocksFree

\* ------------------------------------------------ decode_qr (qr.rs:36-55)
\* the points of the loop body in program order, and the two ways it ends
Rank(pc) == CASE pc = "sleep" -> 0
              [] pc = "decode" -> 1
              [] pc = "decoding" -> 2
              [] pc = "publish" -> 3
              [] pc = "check" -> 4
              [] OTHER -> 5

\* history of a step of the worker; an iteration runs from the sample to the
\* stop check
NoteWorkerStep ==
    /\ restarted' = (restarted \/ (stop /\ Rank(wpc') < Rank(wpc)))
    /\ idle' = CASE wpc = "sleep" -> (grey_img_opt' = None)
                 [] wpc = "check" -> FALSE
                 [] OTHER -> idle
    /\ idleTouched' = (idleTouched \/
           (/\ idle \/ (wpc = "sleep" /\ grey_img_opt' = None)
            /\ qrcodes' # qrcodes \/ engineLog' # engineLog))

\* where the worker goes after sampling: into the decode branch of
\* `if let Some(grey_img) = grey_img_opt`, or past it to the stop check
AfterSample(opt) == IF opt # None THEN "decode" ELSE "check"

\* (mutant) the stop flag read between the take and the decode
WorkerSampleThenStop ==
    /\ wpc = "sleep"
    /\ grey_img_opt' = take(grey_image).ret
    /\ grey_image' = take(grey_image).slot
    /\ wpc' = IF stop THEN "Stopped" ELSE AfterSample(take(grey_image).ret)
    /\ NoteTake("grey", take(grey_image).ret)
    /\ UNCHANGED <<rgba_image, qrcodes, stop, join_handle, barcodes, cpc,
                   planesLeft, frameNo, spc, imgResult, qrResult>>
    /\ UNCHANGED <<written, lastWrite, engineHist, published, overwritten,
                   nComplete,
                   joinHist, workerHist>>

\* (mutant) an iteration without a frame clearing the results mailbox
WorkerSampleClearsResults ==
    /\ wpc = "sleep"
    /\ grey_img_opt' = LockedTake("grey", grey_image).ret
    /\ grey_image' = LockedTake("grey", grey_image).slot
    /\ wpc' = AfterSample(LockedTake("grey", grey_image).ret)
    /\ qrcodes' = IF LockedTake("grey", grey_image).ret = None THEN None
                                                              ELSE qrcodes
    /\ NoteLockedTake("grey", LockedTake("grey", grey_image).ret)
    /\ UNCHANGED <<rgba_image, stop, join_handle, barcodes, cpc,
                   planesLeft, frameNo, spc, imgResult, qrResult>>
    /\ UNCHANGED <<written, lastWrite, engineHist, published, overwritten,
                   nComplete, joinHist>>
    /\ NoteWorkerStep

\* qr.rs:43-45: the sleep ends, then grey_img_mutex.lock()...take()
WorkerSample ==
    /\ wpc = "sleep"
    /\ grey_img_opt' = LockedTake("grey", grey_image).ret
    /\ grey_image' = LockedTake("grey", grey_image).slot
    /\ wpc' = AfterSample(LockedTake("grey", grey_image).ret)
    /\ NoteLockedTake("grey", LockedTake("grey", grey_image).ret)
    /\ UNCHANGED <<rgba_image, qrcodes, stop, join_handle, barcodes, cpc,
                   planesLeft, frameNo, spc, imgResult, qrResult>>
    /\ UNCHANGED <<written, lastWrite, engineHist, published, overwritten,
                   nComplete,
                   joinHist>>
    /\ NoteWorkerStep

\* qr.rs:46: barcode_reader.from(&grey_img) is entered
WorkerEngineCall ==
    /\ wpc = "decode"
    /\ wpc' = "decoding"
    /\ \E f \in grey_img_opt : engineLog' = Append(engineLog, f)
    /\ engineCallers' = engineCallers \cup {"worker"}
    /\ UNCHANGED <<rgba_image, grey_image, qrcodes, stop, join_handle,
                   grey_img_opt, barcodes, cpc, planesLeft, frameNo, spc,
                   imgResult, qrResult>>
    /\ UNCHANGED <<written, lastWrite, fresh, takeHist, published,
                   overwritten, nComplete, joinHist>>
    /\ NoteWorkerStep

\* qr.rs:46: Result::unwrap of the engine's result: Ok(v) is v, Err panics
\* the thread
unwrap(r) == IF r.ok THEN [pc |-> "publish", val |-> r.codes]
                     ELSE [pc |-> "panicked", val |-> <<>>]

\* qr.rs:46: the engine call returns and its result is unwrapped
WorkerEngineReturn ==
    /\ wpc = "decoding"
    /\ \E f \in grey_img_opt : \E r \in EngineResults(f) :
          /\ wpc' = unwrap(r).pc
          /\ barcodes' = unwrap(r).val
    /\ UNCHANGED <<rgba_image, grey_image, qrcodes, stop, join_handle,
                   grey_img_opt, cpc, planesLeft, frameNo, spc,
                   imgResult, qrResult>>
    /\ UNCHANGED <<mailHist, joinHist>>
    /\ NoteWorkerStep

\* the batch written for a frame: the codes, and the frame they came from
Batch(frame, codes) == [src |-> frame, codes |-> codes]

\* qr.rs:47-49: *qrcodes = Some(barcodes.iter().map(Into::into).collect())
WorkerPublish ==
    /\ wpc = "publish"
    /\ \E f \in grey_img_opt :
          /\ qrcodes' = LockedWrite("qr", qrcodes, Batch(f, barcodes))
          /\ NoteLockedWrite("qr", Batch(f, barcodes))
          /\ published' = IF lock_ok("qr") THEN Append(published, f)
                                           ELSE published
    /\ wpc' = "check"
    /\ grey_img_opt' = None
    /\ barcodes' = <<>>
    /\ UNCHANGED <<rgba_image, grey_image, stop, join_handle, cpc,
                   planesLeft, frameNo, spc, imgResult, qrResult>>
    /\ UNCHANGED <<takeHist, engineHist, overwritten, nComplete,
                   joinHist>>
    /\ NoteWorkerStep

\* (mutant) a loop that never looks at the stop flag
AfterCheckIgnored(stopped) == "sleep"

\* qr.rs:51-53: if stop.load(Relaxed) { break }, else the next iteration
AfterCheck(stopped) == IF stopped THEN "Stopped" ELSE "sleep"

WorkerCheckStop ==
    /\ wpc = "check"
    /\ wpc' = AfterCheck(stop)
    /\ UNCHANGED <<rgba_image, grey_image, qrcodes, stop, join_handle,
                   grey_img_opt, barcodes, cpc, planesLeft, frameNo, spc,
                   imgResult, qrResult>>
    /\ UNCHANGED <<mailHist, joinHist>>
    /\ NoteWorkerStep

decode_qr ==
    \/ WorkerSample
    \/ WorkerEngineCall
    \/ WorkerEngineReturn
    \/ WorkerPublish
    \/ WorkerCheckStop

\* ------------------------------- Handler::handle (camera.rs:105-120)
\* (mutant) a match that forgets the height
PlaneCompleteNoHeight(plane) == plane.stride /\ plane.data

\* the match of camera.rs:115-116: all three of stride, height, data are Some
PlaneComplete(plane) == plane.stride /\ plane.height /\ plane.data

\* the capture collaborator calls handle(frame) on its serial queue
HandleEnter ==
    /\ cpc = "idle"
    /\ cpc' = "map"
    /\ UNCHANGED <<rgba_image, grey_image, qrcodes, stop, join_handle, wpc,
                   grey_img_opt, barcodes, planesLeft, frameNo, spc,
                   imgResult, qrResult>>
    /\ UNCHANGED histVars

\* camera.rs:108-113: frame.map() fails, or mapped_guard.planes() is None:
\* handle returns; otherwise the loop over the planes starts
HandleMap ==
    /\ cpc = "map"
    /\ \/ /\ cpc' = "idle"
          /\ planesLeft' = 0
       \/ \E n \in 0..MaxPlanes :
             /\ cpc' = "planes"
             /\ planesLeft' = n
    /\ UNCHANGED <<rgba_image, grey_image, qrcodes, stop, join_handle, wpc,
                   grey_img_opt, barcodes, frameNo, spc, imgResult,
                   qrResult>>
    /\ UNCHANGED histVars

\* camera.rs:114-119: the loop visits the next plane; a complete plane enters
\* record_img (camera.rs:122-158 build the two images), any other takes the
\* `_ => ()` arm and the loop is back at its head ("skipped")
HandlePlane ==
    /\ cpc \in {"planes", "skipped"}
    /\ planesLeft > 0
    /\ \E plane \in Planes :
          /\ planesLeft' = planesLeft - 1
          /\ IF PlaneComplete(plane)
                THEN /\ frameNo < MaxFrames
                     /\ frameNo' = frameNo + 1
                     /\ cpc' = "rec_rgba"
                ELSE /\ frameNo' = frameNo
                     /\ cpc' = "skipped"
          /\ nComplete' = nComplete +
                 (IF plane = [stride |-> TRUE, height |-> TRUE, data |-> TRUE]
                     THEN 1 ELSE 0)
    /\ UNCHANGED <<rgba_image, grey_image, qrcodes, stop, join_handle, wpc,
                   grey_img_opt, barcodes, spc, imgResult, qrResult>>
    /\ UNCHANGED <<written, lastWrite, fresh, takeHist, engineHist,
                   published, overwritten,
                   joinHist, workerHist>>

\* camera.rs:114,120: the loop is over, handle returns
HandleReturn ==
    /\ cpc \in {"planes", "skipped"}
    /\ planesLeft = 0
    /\ cpc' = "idle"
    /\ UNCHANGED <<rgba_image, grey_image, qrcodes, stop, join_handle, wpc,
                   grey_img_opt, barcodes, planesLeft, frameNo, spc,
                   imgResult, qrResult>>
    /\ UNCHANGED histVars

\* --------------------------- Handler::record_img (camera.rs:122-165)
\* (mutant) record_img returning at the first lock that fails
RecordRgbaOrReturn ==
    /\ cpc = "rec_rgba"
    /\ rgba_image' = LockedWrite("rgba", rgba_image, frameNo)
    /\ NoteLockedWrite("rgba", frameNo)
    /\ cpc' = IF lock_ok("rgba") THEN "rec_grey" ELSE "planes"
    /\ UNCHANGED <<grey_image, qrcodes, stop, join_handle, wpc,
                   grey_img_opt, barcodes, planesLeft, frameNo, spc,
                   imgResult, qrResult>>
    /\ UNCHANGED <<takeHist, engineHist, published, overwritten, nComplete,
                   joinHist, workerHist>>

\* camera.rs:159-161: *image = Some(rgba_img)
RecordRgba ==
    /\ cpc = "rec_rgba"
    /\ rgba_image' = LockedWrite("rgba", rgba_image, frameNo)
    /\ NoteLockedWrite("rgba", frameNo)
    /\ cpc' = "rec_grey"
    /\ UNCHANGED <<grey_image, qrcodes, stop, join_handle, wpc,
                   grey_img_opt, barcodes, planesLeft, frameNo, spc,
                   imgResult, qrResult>>
    /\ UNCHANGED <<takeHist, engineHist, published, overwritten, nComplete,
                   joinHist, workerHist>>

\* (mutant) record_img running the barcode engine on the image it just built
RecordGreyDecodeInline ==
    /\ cpc = "rec_grey"
    /\ grey_image' = write(grey_image, frameNo)
    /\ NoteWrite("grey", frameNo)
    /\ overwritten' = overwritten \cup grey_image
    /\ engineLog' = Append(engineLog, frameNo)
    /\ engineCallers' = engineCallers \cup {"capture"}
    /\ cpc' = "planes"
    /\ UNCHANGED <<rgba_image, qrcodes, stop, join_handle, wpc,
                   grey_img_opt, barcodes, planesLeft, frameNo, spc,
                   imgResult, qrResult>>
    /\ UNCHANGED <<takeHist, published, nComplete,
                   joinHist, workerHist>>

\* camera.rs:162-164: *grey_image = Some(grey_img); record_img returns into
\* the loop of handle
RecordGrey ==
    /\ cpc = "rec_grey"
    /\ grey_image' = LockedWrite("grey", grey_image, frameNo)
    /\ NoteLockedWrite("grey", frameNo)
    /\ overwritten' = IF lock_ok("grey") THEN overwritten \cup grey_image
                                         ELSE overwritten
    /\ cpc' = "planes"
    /\ UNCHANGED <<rgba_image, qrcodes, stop, join_handle, wpc,
                   grey_img_opt, barcodes, planesLeft, frameNo, spc,
                   imgResult, qrResult>>
    /\ UNCHANGED <<takeHist, engineHist, published, nComplete,
                   joinHist, workerHist>>

handle ==
    \/ HandleEnter
    \/ HandleMap
    \/ HandlePlane
    \/ HandleReturn
    \/ RecordRgba
    \/ RecordGrey

\* ------------------------------ Handler::shutdown (camera.rs:90-95)
\* camera.rs:91: self.stop.store(true, Relaxed)
ShutdownStore(c) ==
    /\ spc[c] = "idle"
    /\ stop' = TRUE
    /\ spc' = [spc EXCEPT ![c] = "stored"]
    /\ UNCHANGED <<rgba_image, grey_image, qrcodes, join_handle, wpc,
                   grey_img_opt, barcodes, cpc, planesLeft, frameNo,
                   imgResult, qrResult>>
    /\ UNCHANGED histVars

\* where shutdown goes with what join_handle...take() returned: into
\* handle.join(), or straight to its return
AfterTakeHandle(h) == IF h # None THEN "joining" ELSE "returned"

\* camera.rs:92: self.join_handle.lock().ok().and_then(|mut h| h.take())
ShutdownTakeHandle(c) ==
    /\ spc[c] = "stored"
    /\ join_handle' = LockedTake("join", join_handle).slot
    /\ spc' = [spc EXCEPT ![c] =
                  AfterTakeHandle(LockedTake("join", join_handle).ret)]
    /\ joins' = joins + Cardinality(LockedTake("join", join_handle).ret)
    /\ UNCHANGED <<rgba_image, grey_image, qrcodes, stop, wpc, grey_img_opt,
                   barcodes, cpc, planesLeft, frameNo, imgResult,
                   qrResult>>
    /\ UNCHANGED <<mailHist, silentJoin, workerHist>>

\* (mutant) a join whose result is dropped: `let _ = handle.join();`
JoinResultDropped(w) == "returned"

\* JoinHandle::join returns once the thread has ended: Ok(()) if decode_qr
\* returned, Err if it panicked; camera.rs:93 unwraps that result
JoinOutcome(w) == IF w = "Stopped" THEN "returned" ELSE "panicked"

\* camera.rs:93: handle.join().unwrap()
ShutdownJoin(c) ==
    /\ spc[c] = "joining"
    /\ wpc \in {"Stopped", "panicked"}
    /\ spc' = [spc EXCEPT ![c] = JoinOutcome(wpc)]
    /\ silentJoin' = (silentJoin \/ (wpc = "panicked" /\ JoinOutcome(wpc) = "returned"))
    /\ UNCHANGED <<rgba_image, grey_image, qrcodes, stop, join_handle, wpc,
                   grey_img_opt, barcodes, cpc, planesLeft, frameNo,
                   imgResult, qrResult>>
    /\ UNCHANGED <<mailHist, joins, workerHist>>

shutdown ==
    \E c \in Callers :
       \/ ShutdownStore(c)
       \/ ShutdownTakeHandle(c)
       \/ ShutdownJoin(c)

\* (mutant) take_img reading the grey mailbox instead of the RGBA one
take_img_grey_slot ==
    /\ imgResult' = take(grey_image).ret
    /\ grey_image' = take(grey_image).slot
    /\ NoteTake("rgba", take(grey_image).ret)
    /\ UNCHANGED <<rgba_image, qrcodes, stop, join_handle, wpc,
                   grey_img_opt, barcodes, cpc, planesLeft, frameNo, spc,
                   qrResult>>
    /\ UNCHANGED <<written, lastWrite, engineHist, published, overwritten,
                   nComplete,
                   joinHist, workerHist>>

\* ------------------------------ Handler::take_img (camera.rs:97-99)
take_img ==
    /\ imgResult' = LockedTake("rgba", rgba_image).ret
    /\ rgba_image' = LockedTake("rgba", rgba_image).slot
    /\ NoteLockedTake("rgba", LockedTake("rgba", rgba_image).ret)
    /\ UNCHANGED <<grey_image, qrcodes, stop, join_handle, wpc,
                   grey_img_opt, barcodes, cpc, planesLeft, frameNo, spc,
                   qrResult>>
    /\ UNCHANGED <<written, lastWrite, engineHist, published, overwritten,
                   nComplete,
                   joinHist, workerHist>>

\* -------------------------- Handler::take_qrcodes (camera.rs:101-103)
take_qrcodes ==
    /\ qrResult' = LockedTake("qr", qrcodes).ret
    /\ qrcodes' = LockedTake("qr", qrcodes).slot
    /\ NoteLockedTake("qr", LockedTake("qr", qrcodes).ret)
    /\ UNCHANGED <<rgba_image, grey_image, stop, join_handle, wpc,
                   grey_img_opt, barcodes, cpc, planesLeft, frameNo, spc,
                   imgResult>>
    /\ UNCHANGED <<written, lastWrite, engineHist, published, overwritten,
                   nComplete,
                   joinHist, workerHist>>

\* ------------- record_img: building the images (camera.rs:122-158)
\* The bytes of a plane.  Two kinds of buffer are tried, of every length up
\* to MaxLen: a ramp, every byte of which differs from every other, and a
\* grey picture with neutral chroma whose luma alternates between 235 and 16.
\* (For these bytes the decimal arithmetic of yuv_to_rgb below rounds as the
\* f32 arithmetic of the source does; over all bytes the two differ only
\* for u = v = 78 and u = v = 178.)
DataByte(kind, i) ==
    IF kind = "ramp" THEN 3 + 5 * i
    ELSE CASE i % 4 = 0 -> 128
           [] i % 4 = 1 -> 235
           [] i % 4 = 2 -> 128
           [] OTHER -> 16

DataBuffers ==
    {[i \in 1..n |-> DataByte(kind, i - 1)] : kind \in {"ramp", "grey"}, n \in 0..MaxLen}

\* (mutant) an image as wide as the stride
WidthOfStride(s) == s

\* camera.rs:124: let width = stride / 2
Width(s) == s \div 2

\* (mutant) BT.601 for video-range samples: luma 16..235 stretched to 0..255
clamp_video(value) ==
    LET n == 1164 * ((value - 16000000) \div 1000)
        r == IF n >= 0 THEN (2 * n + 1000000) \div 2000000
                       ELSE -((2 * (-n) + 1000000) \div 2000000)
    IN  IF r < 0 THEN 0 ELSE IF r > 255 THEN 255 ELSE r

\* camera.rs:296-298: value.round().clamp(0.0, 255.0) as u8; value is given
\* in millionths, and f32::round rounds half-way cases away from zero
clamp(value) ==
    LET r == IF value >= 0 THEN (2 * value + 1000000) \div 2000000
                           ELSE -((2 * (-value) + 1000000) \div 2000000)
    IN  IF r < 0 THEN 0 ELSE IF r > 255 THEN 255 ELSE r

\* camera.rs:288-294, in millionths
yuv_to_rgb(y, u, v) ==
    LET r == y * 1000000 + 1402000 * (v - 128)
        g == y * 1000000 - 344136 * (u - 128) - 714136 * (v - 128)
        b == y * 1000000 + 1772000 * (u - 128)
    IN  <<clamp(r), clamp(g), clamp(b)>>

\* (mutant) a pixel built without its alpha
RgbaTransparent(rgb) == <<rgb[1], rgb[2], rgb[3], 0>>

\* camera.rs:151-152: Rgba([rgb[0], rgb[1], rgb[2], 255])
Rgba(rgb) == <<rgb[1], rgb[2], rgb[3], 255>>

\* ImageBuffer::put_pixel
put_pixel(img, px, py, v) == [img EXCEPT !.px[<<px, py>>] = v]

\* (mutant) a bounds check that lets the group end one byte past the buffer
out_of_data_by_one(idx, len) == idx + 3 > len

\* camera.rs:134-136: if idx + 3 >= data.len() { continue; }
out_of_data(idx, len) == idx + 3 >= len

\* camera.rs:137-140: data[i] is a checked slice access, it panics unless
\* i < data.len()
in_data(d, i) == i < Len(d)

\* camera.rs:151-156: put_pixel panics unless the coordinate lies in the image
in_image(img, px, py) == px < img.width /\ py < img.height

\* a record_img call is entered with some stride, height and data
ConvInit ==
    /\ HandlerNew
    /\ poisoned = {}
    /\ stride \in 0..MaxStride
    /\ height \in 0..MaxHeight
    /\ data \in DataBuffers
    /\ row = 0
    /\ x = 0
    /\ rgba_img = RgbaImage_new(Width(stride), height)
    /\ grey_img = GrayImage_new(Width(stride), height)
    /\ rpc = "loop"
    /\ pairs = {}
    /\ LocksFree

\* camera.rs:129-157: one turn of the inner loop.  data[i] of the source is
\* data[i + 1] here.
RecordPair ==
    /\ rpc = "loop"
    /\ row < height
    /\ x < Width(stride) \div 2
    /\ LET width == Width(stride)
           x_reverse == width - x - 1
           idx == row * stride + x_reverse * 4
       IN  IF out_of_data(idx, Len(data))
              THEN UNCHANGED <<rgba_img, grey_img, pairs, rpc>>
           ELSE IF ~(/\ in_data(data, idx + 3)
                     /\ in_image(rgba_img, x * 2 + 1, row)
                     /\ in_image(grey_img, x * 2 + 1, row))
              THEN /\ rpc' = "panicked"
                   /\ UNCHANGED <<rgba_img, grey_img, pairs>>
              ELSE LET v == data[idx + 1]
                       y1 == data[idx + 2]
                       u == data[idx + 3]
                       y0 == data[idx + 4]
                       rgb0 == yuv_to_rgb(y0, u, v)
                       rgb1 == yuv_to_rgb(y1, u, v)
                   IN  /\ rgba_img' = put_pixel(put_pixel(rgba_img, x * 2, row, Rgba(rgb0)),
                                                x * 2 + 1, row, Rgba(rgb1))
                       /\ grey_img' = put_pixel(put_pixel(grey_img, x * 2, row, y0),
                                                x * 2 + 1, row, y1)
                       /\ pairs' = pairs \cup
                              {[row |-> row, x |-> x, idx |-> idx,
                                v |-> v, y1 |-> y1, u |-> u, y0 |-> y0]}
                       /\ UNCHANGED rpc
    /\ x' = x + 1
    /\ UNCHANGED <<stride, height, data, row>>

\* camera.rs:128-129: the inner loop is over, the outer one goes on
RecordNextRow ==
    /\ rpc = "loop"
    /\ row < height
    /\ x >= Width(stride) \div 2
    /\ row' = row + 1
    /\ x' = 0
    /\ UNCHANGED <<stride, height, data, rgba_img, grey_img, rpc, pairs>>

\* camera.rs:128,158: the outer loop is over, the two images are complete
RecordLoopEnd ==
    /\ rpc = "loop"
    /\ row >= height
    /\ rpc' = "done"
    /\ UNCHANGED <<stride, height, data, row, x, rgba_img, grey_img, pairs>>

record_img ==
    /\ \/ RecordPair
       \/ RecordNextRow
       \/ RecordLoopEnd
    /\ UNCHANGED <<progVars, poisoned, lockVars, histVars>>

ConvSpec == ConvInit /\ [][record_img]_vars

\* ------------------------------------------------------------- the system
\* no step of the program poisons a mutex
Next ==
    /\ \/ decode_qr
       \/ handle
       \/ shutdown
       \/ take_img
       \/ take_qrcodes
    /\ UNCHANGED envVars

Spec == Init /\ [][Next]_vars

\* ------------------------------------------------- the mutexes as locks
\* In Spec a statement that locks a mutex is one step.  Here the lock() call
\* is a step of its own, after which the thread holds the MutexGuard; the
\* step of the statement itself ends with the guards of the statement dropped.

\* the mutex that the statement a thread is at locks (none: the empty set)
LockSite(t) ==
    CASE t = Worker ->                                \* qr.rs:44, qr.rs:47
           IF wpc = "sleep" /\ awake THEN {"grey"}
           ELSE IF wpc = "publish" THEN {"qr"} ELSE {}
      [] t = Capture ->                               \* camera.rs:159,162
           IF cpc = "rec_rgba" THEN {"rgba"}
           ELSE IF cpc = "rec_grey" THEN {"grey"} ELSE {}
      [] t = ImgReader -> {"rgba"}                    \* camera.rs:98
      [] t = QrReader -> {"qr"}                       \* camera.rs:102
      [] OTHER ->                                     \* camera.rs:92
           IF \E c \in Callers : t = Caller(c) /\ spc[c] = "stored"
              THEN {"join"} ELSE {}

\* the mutexes whose guard thread t holds
Held(t) == {m \in Mutexes : holder[m] = t}

\* (mutant) guards that outlive their statement
guards_kept(t) == holder

\* the end of a statement that locked: the MutexGuard is dropped (moved into
\* the closure of and_then, or bound by the `if let` whose block ends)
guards_dropped(t) == [m \in Mutexes |-> IF holder[m] = t THEN Nobody ELSE holder[m]]

\* Mutex::lock: the thread gets the guard once nobody holds it
Lock(t) ==
    /\ \E m \in LockSite(t) :
          /\ holder[m] = Nobody
          /\ holder' = [holder EXCEPT ![m] = t]
    /\ UNCHANGED <<progVars, poisoned, convVars, awake, histVars>>

\* the statement that thread t is at, A, done under the guard it has taken
Locked(t, A) ==
    /\ LockSite(t) \subseteq Held(t)
    /\ A
    /\ holder' = guards_dropped(t)
    /\ awake' = (awake /\ t # Worker)
    /\ UNCHANGED <<poisoned, convVars>>

\* a statement that locks nothing
Unlocked(A) ==
    /\ A
    /\ UNCHANGED <<poisoned, convVars, lockVars>>

\* qr.rs:43: thread::sleep returns
WorkerWake ==
    /\ wpc = "sleep"
    /\ ~awake
    /\ awake' = TRUE
    /\ UNCHANGED <<progVars, poisoned, convVars, holder, histVars>>

\* the statement with which thread t ends the critical section it is in
Unlock(t) ==
    \/ t = Worker /\ (Locked(Worker, WorkerSample) \/ Locked(Worker, WorkerPublish))
    \/ t = Capture /\ (Locked(Capture, RecordRgba) \/ Locked(Capture, RecordGrey))
    \/ t = ImgReader /\ Locked(ImgReader, take_img)
    \/ t = QrReader /\ Locked(QrReader, take_qrcodes)
    \/ \E c \in Callers : t = Caller(c) /\ Locked(Caller(c), ShutdownTakeHandle(c))

\* The lock-level state space is some ten times that of Spec, so it is
\* explored with one thread in shutdown and one frame fewer than there.
LockCallers == 1..(MaxCallers - 1)
LockThreads == {Worker, Capture, ImgReader, QrReader} \cup {Caller(c) : c \in LockCallers}
LockFrames == MaxFrames - 1

LockStep ==
    \/ \E t \in LockThreads : Lock(t)
    \/ WorkerWake
    \/ Locked(Worker, WorkerSample)
    \/ Unlocked(WorkerEngineCall)
    \/ Unlocked(WorkerEngineReturn)
    \/ Locked(Worker, WorkerPublish)
    \/ Unlocked(WorkerCheckStop)
    \/ Unlocked(HandleEnter)
    \/ Unlocked(HandleMap)
    \/ Unlocked(HandlePlane) /\ frameNo' <= LockFrames
    \/ Unlocked(HandleReturn)
    \/ Locked(Capture, RecordRgba)
    \/ Locked(Capture, RecordGrey)
    \/ \E c \in LockCallers : Unlocked(ShutdownStore(c))
    \/ \E c \in LockCallers : Locked(Caller(c), ShutdownTakeHandle(c))
    \/ \E c \in LockCallers : Unlocked(ShutdownJoin(c))
    \/ Locked(ImgReader, take_img)
    \/ Locked(QrReader, take_qrcodes)

LockSpec == Init /\ [][LockStep]_vars

\* The same program started with some of the mailbox mutexes poisoned, as
\* they would be after a panic of a thread that held them.  No statement of
\* the program panics under a lock, so this start is a hypothesis: it is
\* there for the branches that handle a failed lock().
PoisonInit ==
    /\ HandlerNew
    /\ poisoned \in SUBSET Mailboxes
    /\ ConvIdle
    /\ LocksFree

\* shutdown touches no mailbox mutex and is left to Spec
PoisonNext ==
    /\ \/ decode_qr
       \/ handle
       \/ take_img
       \/ take_qrcodes
    /\ UNCHANGED envVars

PoisonSpec == PoisonInit /\ [][PoisonNext]_vars

\* The operating system runs every runnable thread sooner or later: the worker
\* thread, and a thread that is inside shutdown().  Nothing obliges the camera
\* to deliver frames, a consumer to poll, or anybody to call shutdown.
FairSpec ==
    /\ Spec
    /\ WF_vars(decode_qr /\ UNCHANGED envVars)
    /\ \A c \in Callers :
          WF_vars((ShutdownTakeHandle(c) \/ ShutdownJoin(c)) /\ UNCHANGED envVars)

\* ============================================================ properties
Range(s) == {s[i] : i \in DOMAIN s}

\* C1: once some shutdown() call has returned, the worker makes no further
\* engine call and no further write to the qrcodes mailbox.
C1_QuietAfterShutdown ==
    [][(\E c \in Callers : spc[c] = "returned")
          => (engineLog' = engineLog /\ published' = published)]_vars

\* C2: per mailbox, every take so far returned the value written last if a
\* write had completed since the previous take (write v; take = Some(v), and
\* after N writes only the N-th), and None otherwise (the second of two takes).
C2_SequentialMailbox ==
    \A m \in Mailboxes : ~unexpected[m]

\* two images written with no take in between, then one take: it returned the
\* second only; likewise for the grey mailbox and the worker
C2_Witness ==
    /\ written["rgba"] = {1, 2} /\ delivered["rgba"] = {2} /\ imgResult = Some(2)
    /\ written["grey"] = {1, 2} /\ delivered["grey"] = {2}

\* C3: under every interleaving, what a take returned was None or the value
\* of the latest completed write to that mailbox: a value some write stored,
\* and never one that a completed later write had superseded.
C3_TakeLatestOrNone ==
    \A m \in Mailboxes : ~stale[m]

\* image 1 was taken by a consumer and by the worker while record_img was
\* between its two writes of image 2
C3_Witness ==
    /\ cpc = "rec_grey" /\ frameNo = 2
    /\ imgResult = Some(2) /\ delivered["rgba"] = {1, 2}
    /\ grey_img_opt = Some(1) /\ wpc = "decoding"

\* C4: no value is returned by two takes, a mailbox is empty (a take returns
\* None) whenever no write has completed since the previous take, and the
\* engine is called at most once per grey frame written.
C4_AtMostOnce ==
    /\ \A m \in Mailboxes : ~redelivered[m]
    /\ ~fresh["rgba"] => rgba_image = None
    /\ ~fresh["grey"] => grey_image = None
    /\ ~fresh["qr"] => qrcodes = None
    /\ \A i, j \in DOMAIN engineLog : i # j => engineLog[i] # engineLog[j]
    /\ Range(engineLog) \subseteq written["grey"]

\* both frames were decoded, each once, and the latest take_img and
\* take_qrcodes found nothing new after an earlier successful take
C4_Witness ==
    /\ Len(engineLog) = 2
    /\ delivered["rgba"] # {} /\ imgResult = None
    /\ delivered["qr"] # {} /\ qrResult = None

\* C5: a grey frame that record_img replaced before the worker sampled is
\* never passed to the engine; what the worker samples is the newest frame,
\* so every older frame was either sampled in its turn or replaced.
C5_LossySampling ==
    /\ overwritten \cap (Range(engineLog) \cup delivered["grey"]) = {}
    /\ \A f \in delivered["grey"] : \A g \in written["grey"] :
          g < f => g \in delivered["grey"] \cup overwritten

\* frames 1 and 2 were written within one sampling interval: the worker
\* decoded frame 2 only
C5_Witness ==
    /\ overwritten = {1}
    /\ engineLog = <<2>>
    /\ wpc = "check"

\* C6: an engine failure does not end the worker: whatever the engine call
\* returns, the worker goes on to publish a batch (an empty one on failure)
\* and to later iterations.
C6_EngineFailureNotFatal ==
    [][wpc = "decoding" /\ wpc' # "decoding"
          => (wpc' = "publish" /\ grey_img_opt' = grey_img_opt)]_vars

\* C7: the stop flag is read only after the iteration's work: when the worker
\* is Stopped, every grey frame it ever took has been through the engine and
\* has had its batch written to the qrcodes mailbox.
C7_InFlightCompletes ==
    wpc = "Stopped" =>
        /\ delivered["grey"] \subseteq Range(engineLog)
        /\ delivered["grey"] \subseteq Range(published)
        /\ grey_img_opt = None

\* the worker stopped after an iteration that had taken frame 2 and published
\* its batch, the flag having been set by a caller that is still in join
C7_Witness ==
    /\ wpc = "Stopped"
    /\ published = <<1, 2>>
    /\ qrcodes = Some(Batch(2, EngineCodes(2)))
    /\ \E c \in Callers : spc[c] = "joining"

\* C8: once a shutdown() call has set the stop flag, the worker thread ends
\* and that call returns.
C8_ShutdownReturns ==
    /\ stop ~> (wpc \in {"Stopped", "panicked"})
    /\ \A c \in Callers : (spc[c] = "stored") ~> (spc[c] = "returned")

\* C9: only the worker thread calls the engine, and while an engine call is
\* in flight the capture callback and the consumer reads can each take their
\* next step: none of them waits for it.
C9_EngineOnlyInWorker ==
    /\ engineCallers \subseteq {"worker"}
    /\ wpc = "decoding" =>
          /\ ENABLED handle
          /\ ENABLED take_img
          /\ ENABLED take_qrcodes

\* the engine is working on frame 1 while record_img is between its two writes
\* of frame 2 and a consumer has already received image 2
C9_Witness ==
    /\ wpc = "decoding" /\ grey_img_opt = Some(1)
    /\ cpc = "rec_grey" /\ frameNo = 2
    /\ imgResult = Some(2)

\* C10: handle writes one new image to each of the RGBA and the grey mailbox
\* for every plane that has stride, height and data, and nothing for any other
\* plane or frame: the images written so far are exactly one per complete
\* plane seen (the plane record_img is working on aside).
C10_WritesPerCompletePlane ==
    /\ written["rgba"] = 1..(nComplete - (IF cpc = "rec_rgba" THEN 1 ELSE 0))
    /\ written["grey"] = 1..(nComplete - (IF cpc \in {"rec_rgba", "rec_grey"} THEN 1 ELSE 0))
    /\ cpc \notin {"rec_rgba", "rec_grey"} =>
          /\ lastWrite["rgba"] = lastWrite["grey"]
          /\ nComplete = frameNo

\* one complete plane has been written to both mailboxes, and the loop has
\* just skipped an incomplete plane, which changed neither
C10_Witness ==
    /\ cpc = "skipped"
    /\ nComplete = 1
    /\ rgba_image = Some(1) /\ grey_image = Some(1)
    /\ written["rgba"] = {1} /\ written["grey"] = {1}

\* C11: a mailbox lock that fails is "no value", never a panic: with the
\* mutex poisoned take_img and take_qrcodes return None, record_img leaves
\* that mailbox alone and still writes the other one, and the worker skips
\* its take or its result write and goes on with its loop; the consumer
\* reads stay callable, and the worker ends only inside an engine call.
C11_FailedLockIsNoValue ==
    /\ "rgba" \in poisoned =>
          imgResult = None /\ rgba_image = None /\ written["rgba"] = {}
    /\ "qr" \in poisoned =>
          qrResult = None /\ qrcodes = None /\ published = <<>>
    /\ "grey" \in poisoned =>
          /\ grey_image = None /\ written["grey"] = {}
          /\ grey_img_opt = None /\ engineLog = <<>>
          /\ wpc \in {"sleep", "check"}
    /\ "rgba" \notin poisoned =>
          written["rgba"] = 1..(nComplete - (IF cpc = "rec_rgba" THEN 1 ELSE 0))
    /\ "grey" \notin poisoned =>
          written["grey"] =
              1..(nComplete - (IF cpc \in {"rec_rgba", "rec_grey"} THEN 1 ELSE 0))
    /\ "qr" \notin poisoned /\ wpc = "check" /\ engineLog # <<>> =>
          published = engineLog
    /\ wpc = "panicked" => grey_img_opt # None
    /\ ENABLED take_img
    /\ ENABLED take_qrcodes

\* with the RGBA and the qrcodes mutex poisoned, both grey frames were
\* written and decoded: record_img went on to its second write, and the
\* worker went on to a second iteration after skipping the result write
C11_Witness ==
    /\ poisoned = {"rgba", "qr"}
    /\ written["grey"] = {1, 2}
    /\ engineLog = <<1, 2>>
    /\ wpc = "sleep"
    /\ imgResult = None /\ qrResult = None

C13_MirrorsEachRow ==
    (rpc = "done" /\ stride % 4 = 0 /\ Len(data) >= stride * height) =>
        \A p \in DOMAIN grey_img.px :
            LET src == (stride \div 2) - 1 - p[1]
                byte == p[2] * stride + 4 * (src \div 2)
                            + (IF src % 2 = 0 THEN 1 ELSE 3)
            IN  grey_img.px[p] = data[byte + 1]

\* C14: of every 4-byte group that record_img converts, byte 0 is the u and
\* byte 2 the v passed to yuv_to_rgb, and bytes 1 and 3 are stored unchanged
\* as the two grey pixels of the pair (byte 1, the first sample, in the
\* second column of the mirrored pair).
C14_ByteOrderUYVY ==
    \A c \in pairs :
        /\ c.u = data[c.idx + 1]
        /\ c.v = data[c.idx + 3]
        /\ grey_img.px[<<2 * c.x + 1, c.row>>] = data[c.idx + 2]
        /\ grey_img.px[<<2 * c.x, c.row>>] = data[c.idx + 4]

\* C15 (as stated): with neutral chroma (U = V = 128) the luma 235 converts
\* to a pixel within 1 of white (255, 255, 255) and the luma 16 to a pixel
\* within 1 of black (0, 0, 0).
C15_VideoRangeVectors ==
    \A c \in pairs : (c.u = 128 /\ c.v = 128) =>
        \A k \in {0, 1} :
            LET y == IF k = 0 THEN c.y0 ELSE c.y1
                pixel == rgba_img.px[<<2 * c.x + k, c.row>>]
            IN  /\ y = 235 => \A i \in 1..3 : pixel[i] >= 254
                /\ y = 16 => \A i \in 1..3 : pixel[i] <= 1

\* C15 (amended): with neutral chroma the conversion leaves the luma as it
\* is: Y = 235 gives (235, 235, 235) and Y = 16 gives (16, 16, 16).
C15_NeutralChromaKeepsLuma ==
    \A c \in pairs : (c.u = 128 /\ c.v = 128) =>
        \A k \in {0, 1} :
            LET y == IF k = 0 THEN c.y0 ELSE c.y1
                pixel == rgba_img.px[<<2 * c.x + k, c.row>>]
            IN  /\ pixel = <<y, y, y, 255>>
                /\ y = 235 => pixel = <<235, 235, 235, 255>>
                /\ y = 16 => pixel = <<16, 16, 16, 255>>

\* a pair with U = V = 128 and the lumas 16 and 235 has been converted
C15_Witness ==
    \E c \in pairs : c.u = 128 /\ c.v = 128 /\ c.y0 = 16 /\ c.y1 = 235

\* C16 (as stated): every pixel of the RGBA image that record_img has built
\* has alpha 255, the pixels of skipped pairs included.
C16_AlphaAlways255 ==
    rpc = "done" => \A p \in DOMAIN rgba_img.px : rgba_img.px[p][4] = 255

\* C16 (amended): a pixel of the RGBA image has alpha 255 if its pair has
\* been converted; every other pixel (a pair the bounds check skipped, the
\* last column of an odd width) is as RgbaImage::new left it, (0, 0, 0, 0).
C16_AlphaOfConvertedPairs ==
    \A p \in DOMAIN rgba_img.px :
        IF \E c \in pairs : c.row = p[2] /\ c.x = p[1] \div 2
            THEN rgba_img.px[p][4] = 255
            ELSE rgba_img.px[p] = <<0, 0, 0, 0>>

\* a finished image in which one pair was converted and another skipped
C16_Witness ==
    /\ rpc = "done"
    /\ pairs # {}
    /\ \E p \in DOMAIN rgba_img.px : rgba_img.px[p] = <<0, 0, 0, 0>>
    /\ \E p \in DOMAIN rgba_img.px : rgba_img.px[p][4] = 255

\* C17: whatever the stride, the height and the length of data, both images
\* are stride/2 pixels wide and height pixels high, with a pixel for every
\* position.
C17_ImageDimensions ==
    rpc # "idle" =>
        /\ rgba_img.width = stride \div 2 /\ rgba_img.height = height
        /\ grey_img.width = stride \div 2 /\ grey_img.height = height
        /\ DOMAIN rgba_img.px = (0..((stride \div 2) - 1)) \X (0..(height - 1))
        /\ DOMAIN grey_img.px = (0..((stride \div 2) - 1)) \X (0..(height - 1))

\* a finished pair of images for a buffer much shorter than stride * height
C17_Witness ==
    /\ rpc = "done"
    /\ stride = 8 /\ height = 2 /\ Len(data) = 5
    /\ Cardinality(DOMAIN rgba_img.px) = 8
    /\ Cardinality(DOMAIN grey_img.px) = 8

\* C18: a thread holds the guard of a mutex only at the one statement that
\* locked it, which is a single take or replace: so no thread holds two
\* guards, the worker holds none while it sleeps or while the engine runs, a
\* shutdown() call holds none while it waits in join, and whoever holds a
\* mutex can finish its statement and release it without waiting for any
\* other thread, so that no thread waits for a lock for ever.
C18_LockDiscipline ==
    /\ \A t \in Threads : Held(t) \subseteq LockSite(t)
    /\ \A t \in Threads : Cardinality(Held(t)) <= 1
    /\ (wpc = "sleep" /\ ~awake) => Held(Worker) = {}
    /\ wpc \in {"decode", "decoding"} => Held(Worker) = {}
    /\ \A c \in Callers : spc[c] = "joining" => Held(Caller(c)) = {}
    /\ \A m \in Mutexes : holder[m] # Nobody => ENABLED Unlock(holder[m])

\* all four mutexes are held at once, each by another thread, and the
\* worker, its sleep over, waits for the grey mailbox that record_img holds
C18_Witness ==
    /\ holder["rgba"] = ImgReader
    /\ holder["grey"] = Capture
    /\ holder["qr"] = QrReader
    /\ holder["join"] = Caller(1)
    /\ wpc = "sleep" /\ awake

\* C19: Handler::new spawns the one worker and stores its one JoinHandle,
\* which every clone shares; over all shutdown() calls, sequential or
\* concurrent, join is called at most once, by the call that took the handle,
\* and every other call returns without joining and without failing.
C19_JoinedAtMostOnce ==
    /\ join_handle \subseteq {"worker"}
    /\ joins <= 1
    /\ (joins = 1) <=> (join_handle = None)
    /\ Cardinality({c \in Callers : spc[c] \in {"joining", "panicked"}}) <= joins

\* two shutdown() calls on a pipeline whose worker panicked: the one that
\* took the handle joined and failed, the other returned normally
C19_Witness ==
    /\ joins = 1
    /\ wpc = "panicked"
    /\ \E c, d \in Callers : spc[c] = "panicked" /\ spc[d] = "returned"

\* C20: once the stop flag is set the worker only moves forward through the
\* iteration it is in, to the stop check and out of the loop: it begins at
\* most one more engine call and starts no further iteration, and it leaves
\* the loop only with the flag set.
C20_BoundedStop ==
    /\ ~restarted
    /\ wpc = "Stopped" => stop

\* the flag was set while the second iteration was under way: the worker
\* holds frame 2 and is about to begin the one further engine call
C20_Witness ==
    /\ stop
    /\ wpc = "decode"
    /\ engineLog = <<1>>
    /\ grey_img_opt = Some(2)

\* C21: an iteration of the worker that finds the grey mailbox empty goes
\* straight to the stop check: it calls no engine and leaves the qrcodes
\* mailbox as it is, an unconsumed batch included.  A batch is written only
\* in an iteration that took a grey frame, one per engine call at most, and
\* the mailbox then holds that batch alone, whatever it held before.
C21_EmptyIterationTouchesNothing ==
    /\ ~idleTouched
    /\ idle => (wpc = "check" /\ grey_img_opt = None)
    /\ Range(published) \subseteq delivered["grey"]
    /\ Len(published) <= Len(engineLog)
    /\ written["qr"] = {Batch(f, EngineCodes(f)) : f \in Range(published)}
    /\ fresh["qr"] => qrcodes = lastWrite["qr"]
    /\ published # <<>> =>
          lastWrite["qr"] = Some(Batch(published[Len(published)],
                                       EngineCodes(published[Len(published)])))

\* the batch of frame 1 lies unconsumed in the results mailbox while the
\* worker is in an iteration that found no grey frame
C21_Witness ==
    /\ idle
    /\ wpc = "check"
    /\ qrcodes = Some(Batch(1, EngineCodes(1)))
    /\ fresh["qr"]
    /\ published = <<1>>

\* C23: numbering the grey frames in the order record_img writes them, the
\* frames whose batches the worker publishes have strictly increasing
\* numbers; the batch in the results mailbox is newer than every batch a
\* take_qrcodes has returned, so successive Some results come from strictly
\* newer frames; and no batch comes from a frame newer than the latest grey
\* frame written.
C23_BatchesFollowFrameOrder ==
    /\ \A i, j \in DOMAIN published : i < j => published[i] < published[j]
    /\ \A b \in qrcodes : \A d \in delivered["qr"] : d.src < b.src
    /\ qrResult \subseteq delivered["qr"]
    /\ \A b \in qrResult : \A d \in delivered["qr"] : d.src <= b.src
    /\ \A b \in qrcodes \cup delivered["qr"] :
          \A f \in lastWrite["grey"] : b.src <= f

\* take_qrcodes has returned the batch of frame 1 and then that of frame 2
C23_Witness ==
    /\ published = <<1, 2>>
    /\ {d.src : d \in delivered["qr"]} = {1, 2}
    /\ qrResult = Some(Batch(2, EngineCodes(2)))

\* C22: for a buffer of exactly stride * height bytes, stride a multiple of
\* 4, record_img skips no pair: every pair of every row, the last row
\* included, is converted from source bytes.
C22_NoPairSkipped ==
    (rpc = "done" /\ stride % 4 = 0 /\ Len(data) = stride * height) =>
        \A r \in 0..(height - 1), xx \in 0..(Width(stride) \div 2 - 1) :
            \E c \in pairs : c.row = r /\ c.x = xx

\* C24: record_img accesses nothing out of bounds, whatever the stride, the
\* height and the length of the data: no slice access and no put_pixel
\* panics, the four bytes of every converted pair lie inside the buffer,
\* and both pixels of the pair lie inside the image; an image less than two
\* pixels wide has no pair at all.
C24_NoAccessOutOfBounds ==
    /\ rpc # "panicked"
    /\ \A c \in pairs :
          /\ c.idx >= 0
          /\ c.idx + 3 < Len(data)
          /\ c.x * 2 + 1 < Width(stride)
          /\ c.row < height
          /\ <<c.x * 2 + 1, c.row>> \in DOMAIN rgba_img.px
          /\ <<c.x * 2 + 1, c.row>> \in DOMAIN grey_img.px
    /\ Width(stride) < 2 => pairs = {}

\* an image three pixels wide is complete: the pair of row 0 was converted,
\* that of row 1 was skipped for lack of bytes
C24_Witness ==
    /\ rpc = "done"
    /\ Width(stride) = 3
    /\ height = 2
    /\ {c.row : c \in pairs} = {0}
    /\ Len(data) < stride * height

====
